---- MODULE Spec2Model ----
(***************************************************************************)
(* A model of the toy transaction engine: the ledger (src/src/ledger.rs),  *)
(* its accounts (src/src/account.rs) and the typed transactions            *)
(* (src/src/transaction.rs), driven record by record as the loop of        *)
(* src/src/application.rs drives them.                                     *)
(***************************************************************************)
EXTENDS Integers, Sequences, FiniteSets, TLC

\* ------------------------------------------------------------------ bounds
\* u128::MAX scaled down: amounts are 0..U128_MAX and the checked arithmetic
\* of account.rs fails beyond it.
U128_MAX == 2
\* The number of records the input holds at most.
MaxRecords == 4

\* The longest amount field given to amount_from_string.
MaxStrLen == 6

\* u128::MAX as amount_from_string meets it, scaled down so that amounts of
\* ten units and more are past it while four fractional digits fit.
ParseU128Max == 99999

\* Two client ids (u16 in the source): the client a record names and another.
ClientIds == {1, 2}
\* Two transaction ids (u32 in the source).
TxnIds == {1, 2}
Amounts == 0..U128_MAX

\* Option<u128>: None is the empty sequence, Some(v) the one-element sequence.
None == <<>>
Some(v) == <<v>>

VARIABLES
    accounts,     \* Ledger.accounts: client id -> Account (a partial map)
    txn_history,  \* Ledger.txn_history: txn id -> Txn (a partial map)
    last,         \* the record handed to the latest process_transaction call
    result,       \* what that call returned: "Ok" or "Err"
    pc,           \* the_app: "run" in its loop, "failed" once `?` has returned
                  \* an error, "complete" once it has returned ProcessComplete
    nrecords,     \* the number of records read so far
    exit_status,  \* the exit status of the process: None while it runs
    amount_str,   \* the amount field amount_from_string is given
    parse_result, \* what amount_from_string returned for it
    dropped       \* the ids of the history deposits whose add_available did
                  \* not happen (frozen account, or the Err branch of deposit)

vars == <<accounts, txn_history, last, result, pc, nrecords,
          exit_status, amount_str, parse_result, dropped>>

\* ------------------------------------------------------------------ account.rs
\* A faulty variant of Account::new: the account starts frozen.
Account_new_frozen == [available |-> 0, held |-> 0, disputes |-> {}, frozen |-> TRUE]

\* Account::new.
Account_new == [available |-> 0, held |-> 0, disputes |-> {}, frozen |-> FALSE]

\* The checked arithmetic returns the account as the call leaves it, and whether
\* the call returned Ok.
\* A faulty variant of add_available: the addition wraps around.
add_available_wrapping(account, amount) ==
    [ok |-> TRUE,
     account |-> [account EXCEPT !.available = (@ + amount) % (U128_MAX + 1)]]

add_available(account, amount) ==
    IF account.available + amount <= U128_MAX
    THEN [ok |-> TRUE, account |-> [account EXCEPT !.available = @ + amount]]
    ELSE [ok |-> FALSE, account |-> account]

\* Faulty variants of sub_available: a saturating subtraction, and a comparison
\* that refuses to take the whole of available.
sub_available_saturating(account, amount) ==
    IF account.available >= amount
    THEN [ok |-> TRUE, account |-> [account EXCEPT !.available = @ - amount]]
    ELSE [ok |-> TRUE, account |-> [account EXCEPT !.available = 0]]

sub_available_strict(account, amount) ==
    IF account.available > amount
    THEN [ok |-> TRUE, account |-> [account EXCEPT !.available = @ - amount]]
    ELSE [ok |-> FALSE, account |-> account]

sub_available(account, amount) ==
    IF account.available >= amount
    THEN [ok |-> TRUE, account |-> [account EXCEPT !.available = @ - amount]]
    ELSE [ok |-> FALSE, account |-> account]

\* A faulty variant of add_held: the new balance is computed and not stored.
add_held_lost(account, amount) ==
    IF account.held + amount <= U128_MAX
    THEN [ok |-> TRUE, account |-> account]
    ELSE [ok |-> FALSE, account |-> account]

add_held(account, amount) ==
    IF account.held + amount <= U128_MAX
    THEN [ok |-> TRUE, account |-> [account EXCEPT !.held = @ + amount]]
    ELSE [ok |-> FALSE, account |-> account]

sub_held(account, amount) ==
    IF account.held >= amount
    THEN [ok |-> TRUE, account |-> [account EXCEPT !.held = @ - amount]]
    ELSE [ok |-> FALSE, account |-> account]

\* A faulty variant of freeze: the flag is not set.
freeze_forgotten(account) == account

freeze(account) == [account EXCEPT !.frozen = TRUE]

\* ------------------------------------------------------------------ transaction.rs
\* A from_record that reads a missing amount as zero and an unknown type tag
\* as a deposit of zero.
from_record_default_amount(input) ==
    CASE input.type = "withdrawal" ->
           [ok |-> TRUE,
            txn |-> [kind |-> "Withdraw", client_id |-> input.client,
                     txn_id |-> input.tx,
                     amount |-> IF input.amount # None THEN input.amount[1] ELSE 0]]
      [] input.type = "dispute" ->
           [ok |-> TRUE,
            txn |-> [kind |-> "Dispute", client_id |-> input.client, txn_id |-> input.tx]]
      [] input.type = "resolve" ->
           [ok |-> TRUE,
            txn |-> [kind |-> "Resolve", client_id |-> input.client, txn_id |-> input.tx]]
      [] input.type = "chargeback" ->
           [ok |-> TRUE,
            txn |-> [kind |-> "ChargeBack", client_id |-> input.client, txn_id |-> input.tx]]
      [] OTHER ->
           [ok |-> TRUE,
            txn |-> [kind |-> "Deposit", client_id |-> input.client,
                     txn_id |-> input.tx,
                     amount |-> IF input.amount # None THEN input.amount[1] ELSE 0]]

\* Txn::from_record: the typed transaction, or an error.
from_record(input) ==
    CASE input.type = "deposit" ->
           IF input.amount # None
           THEN [ok |-> TRUE,
                 txn |-> [kind |-> "Deposit", client_id |-> input.client,
                          txn_id |-> input.tx, amount |-> input.amount[1]]]
           ELSE [ok |-> FALSE]
      [] input.type = "withdrawal" ->
           IF input.amount # None
           THEN [ok |-> TRUE,
                 txn |-> [kind |-> "Withdraw", client_id |-> input.client,
                          txn_id |-> input.tx, amount |-> input.amount[1]]]
           ELSE [ok |-> FALSE]
      [] input.type = "dispute" ->
           [ok |-> TRUE,
            txn |-> [kind |-> "Dispute", client_id |-> input.client, txn_id |-> input.tx]]
      [] input.type = "resolve" ->
           [ok |-> TRUE,
            txn |-> [kind |-> "Resolve", client_id |-> input.client, txn_id |-> input.tx]]
      [] input.type = "chargeback" ->
           [ok |-> TRUE,
            txn |-> [kind |-> "ChargeBack", client_id |-> input.client, txn_id |-> input.tx]]
      [] OTHER -> [ok |-> FALSE]

\* Txn::amount: the amount of a deposit or a withdrawal, 0 for the other kinds.
amount_of(txn) == IF txn.kind \in {"Deposit", "Withdraw"} THEN txn.amount ELSE 0

\* ------------------------------------------------------------------ record.rs
\* The characters an amount field is made of here: two decimal digits, the
\* point, a letter and a sign.
Digits == {"0", "5"}

Chars == Digits \cup {".", "x", "+"}

\* char::to_digit(10) on a decimal digit.
DigitValue(c) == CASE c = "0" -> 0 [] c = "5" -> 5

\* The amount fields of at most MaxStrLen characters.
AmountStrings == UNION {[1..n -> Chars] : n \in 0..MaxStrLen}

\* The value of a string of decimal digits, read from the left as
\* str::parse does; once past ParseU128Max it stays past it.
RECURSIVE digits_value(_, _)
digits_value(str, acc) ==
    IF str = <<>> THEN acc
    ELSE digits_value(Tail(str),
                      IF acc > ParseU128Max THEN acc
                      ELSE acc * 10 + DigitValue(Head(str)))

\* str::parse::<u128>(): an optional leading "+", then one or more decimal
\* digits whose value fits the type; anything else is an error.
parse_u128(str) ==
    IF str = <<>> THEN [ok |-> FALSE]
    ELSE IF Len(str) = 1 /\ str[1] \in {"+", "-"} THEN [ok |-> FALSE]
    ELSE LET digits == IF str[1] = "+" THEN Tail(str) ELSE str
         IN IF \E i \in 1..Len(digits) : digits[i] \notin Digits
            THEN [ok |-> FALSE]
            ELSE LET v == digits_value(digits, 0)
                 IN IF v > ParseU128Max THEN [ok |-> FALSE]
                    ELSE [ok |-> TRUE, value |-> v]

\* u128::checked_mul.
checked_mul(a, b) ==
    IF a > ParseU128Max \div b THEN [ok |-> FALSE]
    ELSE [ok |-> TRUE, value |-> a * b]

\* str::split('.') collected: the pieces between the points.
RECURSIVE split(_)
split(s) ==
    IF \A i \in 1..Len(s) : s[i] # "." THEN <<s>>
    ELSE LET i == CHOOSE j \in 1..Len(s) :
                      s[j] = "." /\ \A k \in 1..(j - 1) : s[k] # "."
         IN <<SubSeq(s, 1, i - 1)>> \o split(SubSeq(s, i + 1, Len(s)))

\* What amount_from_string returns: Ok(None), Ok(Some(val)) or an error.
ParseOk(value) == [state |-> "ok", value |-> value]

ParseErr == [state |-> "err", value |-> None]

\* An amount_from_string that parses the fractional digits as given, with no
\* padding to four digits.
amount_from_string_unpadded(s) ==
    IF s = <<>> THEN ParseOk(None)
    ELSE LET processed == split(s)
         IN IF Len(processed) = 1
            THEN LET parsed == parse_u128(s)
                 IN IF ~parsed.ok THEN ParseErr
                    ELSE LET val == checked_mul(parsed.value, 10000)
                         IN IF val.ok THEN ParseOk(Some(val.value)) ELSE ParseErr
            ELSE IF Len(processed) = 2
            THEN LET before_point == processed[1]
                     after_point == processed[2]
                     kept == IF Len(after_point) >= 4 THEN 4 ELSE Len(after_point)
                     val == parse_u128(before_point \o SubSeq(after_point, 1, kept))
                 IN IF val.ok THEN ParseOk(Some(val.value)) ELSE ParseErr
            ELSE ParseErr

\* amount_from_string: the amount field of a record as Option<u128>, or a
\* deserialization error.
amount_from_string(s) ==
    IF s = <<>> THEN ParseOk(None)
    ELSE LET processed == split(s)
         IN IF Len(processed) = 1
            THEN LET parsed == parse_u128(s)
                 IN IF ~parsed.ok THEN ParseErr
                    ELSE LET val == checked_mul(parsed.value, 10000)
                         IN IF val.ok THEN ParseOk(Some(val.value)) ELSE ParseErr
            ELSE IF Len(processed) = 2
            THEN LET before_point == processed[1]
                     after_point == processed[2]
                     char0 == IF Len(after_point) >= 1 THEN after_point[1] ELSE "0"
                     char1 == IF Len(after_point) >= 2 THEN after_point[2] ELSE "0"
                     char2 == IF Len(after_point) >= 3 THEN after_point[3] ELSE "0"
                     char3 == IF Len(after_point) >= 4 THEN after_point[4] ELSE "0"
                     val == parse_u128(before_point \o <<char0, char1, char2, char3>>)
                 IN IF val.ok THEN ParseOk(Some(val.value)) ELSE ParseErr
            ELSE ParseErr

\* ------------------------------------------------------------------ ledger.rs
\* HashMap::entry(k).or_insert(v): the map with k present.
entry_or_insert(map, k, v) == IF k \in DOMAIN map THEN map ELSE map @@ (k :> v)

\* HashMap::insert(k, v): the map with k bound to v, whatever it held.
insert(map, k, v) == [x \in DOMAIN map \cup {k} |-> IF x = k THEN v ELSE map[x]]

\* A faulty variant of deposit: the frozen flag is not looked at.
deposit_ignoring_frozen(L, txn) ==
    LET accts == entry_or_insert(L.accounts, txn.client_id, Account_new)
        account == accts[txn.client_id]
    IN [accounts |-> [accts EXCEPT ![txn.client_id] =
                         add_available(account, txn.amount).account],
        txn_history |-> insert(L.txn_history, txn.txn_id, txn),
        result |-> "Ok"]

\* Each operation takes the ledger L = [accounts, txn_history] and returns the
\* ledger as the call leaves it, with what the call returned.
deposit(L, txn) ==
    LET accts == entry_or_insert(L.accounts, txn.client_id, Account_new)
        account == accts[txn.client_id]
        after == IF account.frozen THEN account
                 ELSE add_available(account, txn.amount).account
    IN [accounts |-> [accts EXCEPT ![txn.client_id] = after],
        txn_history |-> insert(L.txn_history, txn.txn_id, txn),
        result |-> "Ok"]

\* A faulty variant of withdraw: only a withdrawal that took funds is recorded.
withdraw_recording_on_success(L, txn) ==
    LET accts == entry_or_insert(L.accounts, txn.client_id, Account_new)
        account == accts[txn.client_id]
        taken == ~account.frozen /\ sub_available(account, txn.amount).ok
        after == IF account.frozen THEN account
                 ELSE sub_available(account, txn.amount).account
    IN [accounts |-> [accts EXCEPT ![txn.client_id] = after],
        txn_history |-> IF taken THEN insert(L.txn_history, txn.txn_id, txn)
                        ELSE L.txn_history,
        result |-> "Ok"]

withdraw(L, txn) ==
    LET accts == entry_or_insert(L.accounts, txn.client_id, Account_new)
        account == accts[txn.client_id]
        after == IF account.frozen THEN account
                 ELSE sub_available(account, txn.amount).account
    IN [accounts |-> [accts EXCEPT ![txn.client_id] = after],
        txn_history |-> insert(L.txn_history, txn.txn_id, txn),
        result |-> "Ok"]

\* Faulty variants of dispute: the account is that of the client the dispute
\* record names, and the kind of the referenced transaction is not looked at.
dispute_named_client(L, txn) ==
    LET txn_id == txn.txn_id
        unchanged == [accounts |-> L.accounts, txn_history |-> L.txn_history,
                      result |-> "Ok"]
    IN IF txn_id \notin DOMAIN L.txn_history THEN unchanged
       ELSE LET referenced_txn == L.txn_history[txn_id]
            IN IF referenced_txn.kind # "Deposit" THEN unchanged
               ELSE LET amount == amount_of(referenced_txn)
                        owner == txn.client_id
                        accts == entry_or_insert(L.accounts, owner, Account_new)
                        s1 == sub_available(accts[owner], amount)
                        s2 == add_held(s1.account, amount)
                    IN IF ~s1.ok
                       THEN [accounts |-> accts, txn_history |-> L.txn_history,
                             result |-> "Err"]
                       ELSE IF ~s2.ok
                       THEN [accounts |-> [accts EXCEPT ![owner] = s1.account],
                             txn_history |-> L.txn_history, result |-> "Err"]
                       ELSE [accounts |->
                                [accts EXCEPT ![owner] =
                                    [s2.account EXCEPT !.disputes = @ \cup {txn_id}]],
                             txn_history |-> L.txn_history, result |-> "Ok"]

dispute_any_kind(L, txn) ==
    LET txn_id == txn.txn_id
    IN IF txn_id \notin DOMAIN L.txn_history
       THEN [accounts |-> L.accounts, txn_history |-> L.txn_history, result |-> "Ok"]
       ELSE LET referenced_txn == L.txn_history[txn_id]
                amount == amount_of(referenced_txn)
                owner == referenced_txn.client_id
                accts == entry_or_insert(L.accounts, owner, Account_new)
                s1 == sub_available(accts[owner], amount)
                s2 == add_held(s1.account, amount)
            IN IF ~s1.ok
               THEN [accounts |-> accts, txn_history |-> L.txn_history,
                     result |-> "Err"]
               ELSE IF ~s2.ok
               THEN [accounts |-> [accts EXCEPT ![owner] = s1.account],
                     txn_history |-> L.txn_history, result |-> "Err"]
               ELSE [accounts |->
                        [accts EXCEPT ![owner] =
                            [s2.account EXCEPT !.disputes = @ \cup {txn_id}]],
                     txn_history |-> L.txn_history, result |-> "Ok"]

dispute(L, txn) ==
    LET txn_id == txn.txn_id
        unchanged == [accounts |-> L.accounts, txn_history |-> L.txn_history,
                      result |-> "Ok"]
    IN IF txn_id \notin DOMAIN L.txn_history THEN unchanged
       ELSE LET referenced_txn == L.txn_history[txn_id]
            IN IF referenced_txn.kind # "Deposit" THEN unchanged
               ELSE LET amount == amount_of(referenced_txn)
                        owner == referenced_txn.client_id
                        accts == entry_or_insert(L.accounts, owner, Account_new)
                        s1 == sub_available(accts[owner], amount)
                        s2 == add_held(s1.account, amount)
                    IN IF ~s1.ok
                       THEN [accounts |-> accts, txn_history |-> L.txn_history,
                             result |-> "Err"]
                       ELSE IF ~s2.ok
                       THEN [accounts |-> [accts EXCEPT ![owner] = s1.account],
                             txn_history |-> L.txn_history, result |-> "Err"]
                       ELSE [accounts |->
                                [accts EXCEPT ![owner] =
                                    [s2.account EXCEPT !.disputes = @ \cup {txn_id}]],
                             txn_history |-> L.txn_history, result |-> "Ok"]

\* A faulty variant of resolve: a frozen account is left alone.
resolve_refusing_frozen(L, txn) ==
    LET txn_id == txn.txn_id
    IN IF txn_id \notin DOMAIN L.txn_history
       THEN [accounts |-> L.accounts, txn_history |-> L.txn_history, result |-> "Ok"]
       ELSE LET referenced_txn == L.txn_history[txn_id]
                amount == amount_of(referenced_txn)
                owner == referenced_txn.client_id
                accts == entry_or_insert(L.accounts, owner, Account_new)
                s1 == sub_held(accts[owner], amount)
                s2 == add_available(s1.account, amount)
            IN IF txn_id \notin accts[owner].disputes \/ accts[owner].frozen
               THEN [accounts |-> accts, txn_history |-> L.txn_history, result |-> "Ok"]
               ELSE IF ~s1.ok
               THEN [accounts |-> accts, txn_history |-> L.txn_history, result |-> "Err"]
               ELSE IF ~s2.ok
               THEN [accounts |-> [accts EXCEPT ![owner] = s1.account],
                     txn_history |-> L.txn_history, result |-> "Err"]
               ELSE [accounts |->
                        [accts EXCEPT ![owner] =
                            [s2.account EXCEPT !.disputes = @ \ {txn_id}]],
                     txn_history |-> L.txn_history, result |-> "Ok"]

resolve(L, txn) ==
    LET txn_id == txn.txn_id
    IN IF txn_id \notin DOMAIN L.txn_history
       THEN [accounts |-> L.accounts, txn_history |-> L.txn_history, result |-> "Ok"]
       ELSE LET referenced_txn == L.txn_history[txn_id]
                amount == amount_of(referenced_txn)
                owner == referenced_txn.client_id
                accts == entry_or_insert(L.accounts, owner, Account_new)
                s1 == sub_held(accts[owner], amount)
                s2 == add_available(s1.account, amount)
            IN IF txn_id \notin accts[owner].disputes
               THEN [accounts |-> accts, txn_history |-> L.txn_history, result |-> "Ok"]
               ELSE IF ~s1.ok
               THEN [accounts |-> accts, txn_history |-> L.txn_history, result |-> "Err"]
               ELSE IF ~s2.ok
               THEN [accounts |-> [accts EXCEPT ![owner] = s1.account],
                     txn_history |-> L.txn_history, result |-> "Err"]
               ELSE [accounts |->
                        [accts EXCEPT ![owner] =
                            [s2.account EXCEPT !.disputes = @ \ {txn_id}]],
                     txn_history |-> L.txn_history, result |-> "Ok"]

\* A faulty variant of chargeback: the dispute set is not looked at.
chargeback_unchecked(L, txn) ==
    LET txn_id == txn.txn_id
    IN IF txn_id \notin DOMAIN L.txn_history
       THEN [accounts |-> L.accounts, txn_history |-> L.txn_history, result |-> "Ok"]
       ELSE LET referenced_txn == L.txn_history[txn_id]
                amount == amount_of(referenced_txn)
                owner == referenced_txn.client_id
                accts == entry_or_insert(L.accounts, owner, Account_new)
                s1 == sub_held(accts[owner], amount)
            IN IF ~s1.ok
               THEN [accounts |-> accts, txn_history |-> L.txn_history, result |-> "Err"]
               ELSE [accounts |->
                        [accts EXCEPT ![owner] =
                            freeze([s1.account EXCEPT !.disputes = @ \ {txn_id}])],
                     txn_history |-> L.txn_history, result |-> "Ok"]

chargeback(L, txn) ==
    LET txn_id == txn.txn_id
    IN IF txn_id \notin DOMAIN L.txn_history
       THEN [accounts |-> L.accounts, txn_history |-> L.txn_history, result |-> "Ok"]
       ELSE LET referenced_txn == L.txn_history[txn_id]
                amount == amount_of(referenced_txn)
                owner == referenced_txn.client_id
                accts == entry_or_insert(L.accounts, owner, Account_new)
                s1 == sub_held(accts[owner], amount)
            IN IF txn_id \notin accts[owner].disputes
               THEN [accounts |-> accts, txn_history |-> L.txn_history, result |-> "Ok"]
               ELSE IF ~s1.ok
               THEN [accounts |-> accts, txn_history |-> L.txn_history, result |-> "Err"]
               ELSE [accounts |->
                        [accts EXCEPT ![owner] =
                            freeze([s1.account EXCEPT !.disputes = @ \ {txn_id}])],
                     txn_history |-> L.txn_history, result |-> "Ok"]

add_tx_to_account(L, txn) ==
    CASE txn.kind = "Deposit" -> deposit(L, txn)
      [] txn.kind = "Withdraw" -> withdraw(L, txn)
      [] txn.kind = "Dispute" -> dispute(L, txn)
      [] txn.kind = "Resolve" -> resolve(L, txn)
      [] txn.kind = "ChargeBack" -> chargeback(L, txn)

process_transaction(L, record) ==
    LET parsed == from_record(record)
    IN IF ~parsed.ok
       THEN [accounts |-> L.accounts, txn_history |-> L.txn_history, result |-> "Err"]
       ELSE add_tx_to_account(L, parsed.txn)

\* deposit took one of its two empty branches for txn: the account is frozen,
\* or add_available returned an error. The deposit is recorded all the same.
deposit_dropped(L, txn) ==
    LET account == entry_or_insert(L.accounts, txn.client_id, Account_new)[txn.client_id]
    IN account.frozen \/ ~add_available(account, txn.amount).ok

\* The ids of the history deposits that took an empty branch, once record has
\* been processed: txn_history.insert replaces the entry of the record's id.
dropped_after(L, record, was) ==
    LET parsed == from_record(record)
    IN IF ~parsed.ok \/ parsed.txn.kind \notin {"Deposit", "Withdraw"} THEN was
       ELSE IF parsed.txn.kind = "Deposit" /\ deposit_dropped(L, parsed.txn)
            THEN was \cup {parsed.txn.txn_id}
            ELSE was \ {parsed.txn.txn_id}

\* ------------------------------------------------------------------ application.rs
Ledger == [accounts |-> accounts, txn_history |-> txn_history]

\* Ledger::new: both maps empty.
EmptyMap == [x \in {} |-> 0]
NoRecord == [type |-> "none", client |-> 0, tx |-> 0, amount |-> None]
\* amount_from_string has not returned yet.
NotParsed == [state |-> "pending", value |-> None]

Init ==
    /\ accounts = EmptyMap
    /\ txn_history = EmptyMap
    /\ last = NoRecord
    /\ result = "Ok"
    /\ pc = "run"
    /\ nrecords = 0
    /\ exit_status = None
    /\ amount_str = <<>>
    /\ parse_result = NotParsed
    /\ dropped = {}

\* The loop of the_app is still reading records.
Reading == pc = "run" /\ nrecords < MaxRecords

\* One turn of the loop of the_app: process_transaction(record)?, which leaves
\* the loop on an error.
Step(record) ==
    /\ LET out == process_transaction(Ledger, record)
       IN /\ accounts' = out.accounts
          /\ txn_history' = out.txn_history
          /\ result' = out.result
          /\ pc' = IF out.result = "Ok" THEN "run" ELSE "failed"
    /\ last' = record
    /\ nrecords' = nrecords + 1
    /\ dropped' = dropped_after(Ledger, record, dropped)
    /\ UNCHANGED <<exit_status, amount_str, parse_result>>

Record(type, client, tx, amount) ==
    [type |-> type, client |-> client, tx |-> tx, amount |-> amount]

\* A well-formed deposit or withdrawal record carries an amount.
Deposit == \E c \in ClientIds, t \in TxnIds, a \in Amounts :
    Reading /\ Step(Record("deposit", c, t, Some(a)))

Withdraw == \E c \in ClientIds, t \in TxnIds, a \in Amounts :
    Reading /\ Step(Record("withdrawal", c, t, Some(a)))

Dispute == \E c \in ClientIds, t \in TxnIds :
    Reading /\ Step(Record("dispute", c, t, None))

Resolve == \E c \in ClientIds, t \in TxnIds :
    Reading /\ Step(Record("resolve", c, t, None))

ChargeBack == \E c \in ClientIds, t \in TxnIds :
    Reading /\ Step(Record("chargeback", c, t, None))

\* A record from_record refuses: an unknown type tag, or a deposit or withdrawal
\* without an amount. from_record reads neither the client nor the transaction
\* id before it refuses, so one value of each stands for all.
Malformed == \E type \in {"deposit", "withdrawal", "transfer"} :
    Reading /\ Step(Record(type, 1, 1, None))

Next == Deposit \/ Withdraw \/ Dispute \/ Resolve \/ ChargeBack \/ Malformed

Spec == Init /\ [][Next]_vars

\* The run the data model of the specification assumes: no two deposit or
\* withdrawal records share a transaction id, and every record is well formed.
DepositFresh == \E c \in ClientIds, t \in TxnIds \ DOMAIN txn_history, a \in Amounts :
    Reading /\ Step(Record("deposit", c, t, Some(a)))

WithdrawFresh == \E c \in ClientIds, t \in TxnIds \ DOMAIN txn_history, a \in Amounts :
    Reading /\ Step(Record("withdrawal", c, t, Some(a)))

NextUnique == DepositFresh \/ WithdrawFresh \/ Dispute \/ Resolve \/ ChargeBack

SpecUnique == Init /\ [][NextUnique]_vars

\* ------------------------------------------------------------------ main.rs
\* The program was started without a file argument: the_app prints the usage
\* and calls process::exit(1) itself.
Usage ==
    /\ pc = "run"
    /\ nrecords = 0
    /\ pc' = "usage"
    /\ exit_status' = Some(1)
    /\ UNCHANGED <<accounts, txn_history, last, result, nrecords,
                   amount_str, parse_result, dropped>>

\* `let record: Record = result?` (or File::open before the loop) fails: the
\* input cannot be read or a row cannot be deserialized, and the_app returns
\* the error.
InputFails ==
    /\ pc = "run"
    /\ pc' = "failed"
    /\ UNCHANGED <<accounts, txn_history, last, result, nrecords,
                   exit_status, amount_str, parse_result, dropped>>

\* The reader yields no further record: print_accounts, which returns Ok, and
\* the_app returns Ok(ProcessComplete).
EndOfInput ==
    /\ pc = "run"
    /\ pc' = "complete"
    /\ UNCHANGED <<accounts, txn_history, last, result, nrecords,
                   exit_status, amount_str, parse_result, dropped>>

\* What the_app returned, once it has.
the_app_result == IF pc = "complete" THEN "Ok(ProcessComplete)" ELSE "Err"

\* The exit status main ends with for each result of the_app: the first arm
\* and the Err arm return from main, the second calls process::exit(1).
main(app_result) ==
    CASE app_result = "Ok(ProcessComplete)" -> 0
      [] app_result = "Ok(ExternalErr)" -> 1
      [] app_result = "Err" -> 0

\* main matches on what the_app returned and the process ends.
Exit ==
    /\ pc \in {"failed", "complete"}
    /\ exit_status = None
    /\ exit_status' = Some(main(the_app_result))
    /\ UNCHANGED <<accounts, txn_history, last, result, pc, nrecords,
                   amount_str, parse_result, dropped>>

NextMain == Next \/ Usage \/ InputFails \/ EndOfInput \/ Exit

SpecMain == Init /\ [][NextMain]_vars

\* ------------------------------------------------------------------ record.rs
\* Deserialization of one amount field, on its own: the field is any string
\* of AmountStrings and nothing else has happened.
InitParse ==
    /\ accounts = EmptyMap
    /\ txn_history = EmptyMap
    /\ last = NoRecord
    /\ result = "Ok"
    /\ pc = "run"
    /\ nrecords = 0
    /\ exit_status = None
    /\ amount_str \in AmountStrings
    /\ parse_result = NotParsed
    /\ dropped = {}

\* serde calls amount_from_string on the field.
Parse ==
    /\ parse_result = NotParsed
    /\ parse_result' = amount_from_string(amount_str)
    /\ UNCHANGED <<accounts, txn_history, last, result, pc, nrecords,
                   exit_status, amount_str, dropped>>

SpecParse == InitParse /\ [][Parse]_vars

\* The runs that name one client only, which leaves room for longer inputs:
\* two records more than MaxRecords.
OneClient == {1}
ReadingOneClient == pc = "run" /\ nrecords < MaxRecords + 2

DepositOne == \E c \in OneClient, t \in TxnIds, a \in Amounts :
    ReadingOneClient /\ Step(Record("deposit", c, t, Some(a)))

WithdrawOne == \E c \in OneClient, t \in TxnIds, a \in Amounts :
    ReadingOneClient /\ Step(Record("withdrawal", c, t, Some(a)))

DisputeOne == \E c \in OneClient, t \in TxnIds :
    ReadingOneClient /\ Step(Record("dispute", c, t, None))

ResolveOne == \E c \in OneClient, t \in TxnIds :
    ReadingOneClient /\ Step(Record("resolve", c, t, None))

ChargeBackOne == \E c \in OneClient, t \in TxnIds :
    ReadingOneClient /\ Step(Record("chargeback", c, t, None))

NextOneClient == DepositOne \/ WithdrawOne \/ DisputeOne \/ ResolveOne \/ ChargeBackOne

SpecOneClient == Init /\ [][NextOneClient]_vars

\* ------------------------------------------------------------------ properties
\* A step that processed one record (every step of Next is one).
Stepped == nrecords' = nrecords + 1

\* The account of client c in the map accts, as a first reference would create it.
AccountIn(accts, c) == IF c \in DOMAIN accts THEN accts[c] ELSE Account_new

\* Every account but that of client c is as it was, and none was created.
OthersUnchanged(c) ==
    \A x \in DOMAIN accounts' \ {c} : x \in DOMAIN accounts /\ accounts'[x] = accounts[x]

DisputeFamily == {"dispute", "resolve", "chargeback"}

\* C1: a Dispute of a history Deposit of amount a that returns no error takes a
\* from the owner's available, adds a to the owner's held, leaves the id in the
\* owner's dispute set and available + held as it was, and changes no other
\* account.
C1_DisputeMovesFunds ==
    [][(/\ Stepped
        /\ last'.type = "dispute"
        /\ result' = "Ok"
        /\ last'.tx \in DOMAIN txn_history
        /\ txn_history[last'.tx].kind = "Deposit")
       => LET t == last'.tx
              a == txn_history[t].amount
              o == txn_history[t].client_id
              before == AccountIn(accounts, o)
          IN /\ o \in DOMAIN accounts'
             /\ accounts'[o].available = before.available - a
             /\ accounts'[o].held = before.held + a
             /\ t \in accounts'[o].disputes
             /\ accounts'[o].available + accounts'[o].held
                  = before.available + before.held
             /\ OthersUnchanged(o)]_vars

C1_Witness ==
    /\ last.type = "dispute"
    /\ result = "Ok"
    /\ last.tx \in DOMAIN txn_history
    /\ txn_history[last.tx].kind = "Deposit"
    /\ txn_history[last.tx].amount > 0
    /\ LET o == txn_history[last.tx].client_id
       IN /\ last.tx \in accounts[o].disputes
          /\ accounts[o].held >= txn_history[last.tx].amount

\* C2 (as stated): a Resolve of an id in the owner's dispute set takes the
\* amount from held, adds it to available, removes the id from the dispute set
\* and leaves frozen as it was.
C2_ResolveReverses ==
    [][(/\ Stepped
        /\ last'.type = "resolve"
        /\ last'.tx \in DOMAIN txn_history
        /\ txn_history[last'.tx].client_id \in DOMAIN accounts
        /\ last'.tx \in accounts[txn_history[last'.tx].client_id].disputes)
       => LET t == last'.tx
              a == amount_of(txn_history[t])
              o == txn_history[t].client_id
          IN /\ accounts'[o].held = accounts[o].held - a
             /\ accounts'[o].available = accounts[o].available + a
             /\ accounts'[o].disputes = accounts[o].disputes \ {t}
             /\ accounts'[o].frozen = accounts[o].frozen]_vars

\* C3 (as stated): a ChargeBack of an id in the owner's dispute set takes the
\* referenced amount from held, leaves available as it was, removes the id from
\* the dispute set and freezes the account.
C3_ChargeBackFreezes ==
    [][(/\ Stepped
        /\ last'.type = "chargeback"
        /\ last'.tx \in DOMAIN txn_history
        /\ txn_history[last'.tx].client_id \in DOMAIN accounts
        /\ last'.tx \in accounts[txn_history[last'.tx].client_id].disputes)
       => LET t == last'.tx
              a == amount_of(txn_history[t])
              o == txn_history[t].client_id
          IN /\ accounts'[o].held = accounts[o].held - a
             /\ accounts'[o].available = accounts[o].available
             /\ accounts'[o].disputes = accounts[o].disputes \ {t}
             /\ accounts'[o].frozen = TRUE]_vars

\* C4: a Withdraw whose amount exceeds the account's available leaves the
\* account's available, held, dispute set and frozen flag as they were (those
\* of a new account when this record is the first to name the client) and
\* returns no error.
C4_WithdrawInsufficient ==
    [][(/\ Stepped
        /\ last'.type = "withdrawal"
        /\ last'.amount # None
        /\ last'.amount[1] > AccountIn(accounts, last'.client).available)
       => /\ last'.client \in DOMAIN accounts'
          /\ accounts'[last'.client] = AccountIn(accounts, last'.client)
          /\ result' = "Ok"]_vars

C4_Witness ==
    /\ last.type = "withdrawal"
    /\ last.amount # None
    /\ result = "Ok"
    /\ pc = "run"
    /\ ~accounts[last.client].frozen
    /\ accounts[last.client].available > 0
    /\ last.amount[1] > accounts[last.client].available

\* C5: a Withdraw on an account that is not frozen and whose available covers
\* the amount takes exactly the amount from available and leaves held, the
\* dispute set, frozen and every other account as they were.
C5_WithdrawWithinFunds ==
    [][(/\ Stepped
        /\ last'.type = "withdrawal"
        /\ last'.amount # None
        /\ ~AccountIn(accounts, last'.client).frozen
        /\ AccountIn(accounts, last'.client).available >= last'.amount[1])
       => LET c == last'.client
              before == AccountIn(accounts, c)
          IN /\ c \in DOMAIN accounts'
             /\ accounts'[c] = [before EXCEPT !.available = @ - last'.amount[1]]
             /\ OthersUnchanged(c)
             /\ result' = "Ok"]_vars

\* The run deposit 2 for client 1, then withdrawal 1 for client 1: the
\* withdrawal has been taken from available.
C5_Witness ==
    /\ nrecords = 2
    /\ last = Record("withdrawal", 1, 2, Some(1))
    /\ 1 \in DOMAIN txn_history
    /\ txn_history[1] = [kind |-> "Deposit", client_id |-> 1, txn_id |-> 1, amount |-> 2]
    /\ accounts[1] = [available |-> 1, held |-> 0, disputes |-> {}, frozen |-> FALSE]

C7_ActsOnOwner ==
    [][(/\ Stepped
        /\ last'.type \in DisputeFamily
        /\ last'.tx \in DOMAIN txn_history
        /\ txn_history[last'.tx].client_id # last'.client)
       => LET o == txn_history[last'.tx].client_id
              c == last'.client
          IN /\ (c \in DOMAIN accounts') = (c \in DOMAIN accounts)
             /\ c \in DOMAIN accounts => accounts'[c] = accounts[c]
             /\ OthersUnchanged(o)
             /\ (/\ last'.type = "dispute"
                 /\ txn_history[last'.tx].kind = "Deposit"
                 /\ result' = "Ok")
                => /\ o \in DOMAIN accounts'
                   /\ last'.tx \in accounts'[o].disputes]_vars

\* A dispute named a client that has no account; the deposit's owner holds the
\* disputed funds and the named client still has no account.
C7_Witness ==
    /\ last.type = "dispute"
    /\ result = "Ok"
    /\ last.tx \in DOMAIN txn_history
    /\ txn_history[last.tx].kind = "Deposit"
    /\ txn_history[last.tx].amount > 0
    /\ txn_history[last.tx].client_id # last.client
    /\ last.client \notin DOMAIN accounts
    /\ last.tx \in accounts[txn_history[last.tx].client_id].disputes
    /\ accounts[txn_history[last.tx].client_id].held > 0

\* C8 (as stated): in a run of well-formed records with no transaction id
\* shared by two deposit or withdrawal records, a dispute, resolve or
\* chargeback record never returns an error.
C8_DisputeFamilyNeverFails ==
    last.type \in DisputeFamily => result = "Ok"

\* C9: a Resolve or ChargeBack whose id is absent from history, or in history
\* but not in the owner's dispute set, changes no account (none is created),
\* leaves the history as it was and returns no error.
C9_UndisputedIgnored ==
    [][(/\ Stepped
        /\ last'.type \in {"resolve", "chargeback"}
        /\ \/ last'.tx \notin DOMAIN txn_history
           \/ last'.tx \notin
                AccountIn(accounts, txn_history[last'.tx].client_id).disputes)
       => /\ accounts' = accounts
          /\ txn_history' = txn_history
          /\ result' = "Ok"]_vars

\* The second record of the run is a resolve or a chargeback of the deposit
\* the first record made, which was never disputed.
C9_Witness ==
    /\ nrecords = 2
    /\ last.type \in {"resolve", "chargeback"}
    /\ last.tx \in DOMAIN txn_history
    /\ txn_history[last.tx].kind = "Deposit"
    /\ txn_history[last.tx].amount > 0
    /\ accounts[txn_history[last.tx].client_id].available = txn_history[last.tx].amount
    /\ result = "Ok"

\* C10: a Dispute whose id is absent from history, or refers to a Withdraw,
\* creates and changes no account, leaves the history as it was and returns no
\* error.
C10_DisputeIgnored ==
    [][(/\ Stepped
        /\ last'.type = "dispute"
        /\ \/ last'.tx \notin DOMAIN txn_history
           \/ txn_history[last'.tx].kind = "Withdraw")
       => /\ accounts' = accounts
          /\ txn_history' = txn_history
          /\ result' = "Ok"]_vars

\* A dispute has just referred to a withdrawal that had taken funds.
C10_Witness ==
    /\ last.type = "dispute"
    /\ last.tx \in DOMAIN txn_history
    /\ txn_history[last.tx].kind = "Withdraw"
    /\ txn_history[last.tx].amount > 0
    /\ accounts[txn_history[last.tx].client_id].available > 0
    /\ result = "Ok"

\* C11: a dispute, resolve or chargeback record whose referenced transaction
\* is owned by a frozen account leaves the owner's available, held and dispute
\* set, and returns, exactly what it would with the frozen flag cleared; and
\* when it returns no error, a dispute of a deposit moves the amount to held
\* and marks the id, a resolve of a disputed id moves it back and unmarks the
\* id, a chargeback of a disputed id takes it from held and unmarks the id.
C11_FrozenBlocksOnlyDepositWithdraw ==
    [][(/\ Stepped
        /\ last'.type \in DisputeFamily
        /\ last'.tx \in DOMAIN txn_history
        /\ txn_history[last'.tx].client_id \in DOMAIN accounts
        /\ accounts[txn_history[last'.tx].client_id].frozen)
       => LET t == last'.tx
              a == amount_of(txn_history[t])
              o == txn_history[t].client_id
              before == accounts[o]
              after == accounts'[o]
              thawed == [accounts EXCEPT ![o].frozen = FALSE]
              out == process_transaction(
                         [accounts |-> thawed, txn_history |-> txn_history], last')
          IN /\ after.available = out.accounts[o].available
             /\ after.held = out.accounts[o].held
             /\ after.disputes = out.accounts[o].disputes
             /\ result' = out.result
             /\ (/\ last'.type = "dispute"
                 /\ txn_history[t].kind = "Deposit"
                 /\ result' = "Ok")
                => /\ after.available = before.available - a
                   /\ after.held = before.held + a
                   /\ after.disputes = before.disputes \cup {t}
             /\ (last'.type = "resolve" /\ t \in before.disputes /\ result' = "Ok")
                => /\ after.available = before.available + a
                   /\ after.held = before.held - a
                   /\ after.disputes = before.disputes \ {t}
             /\ (last'.type = "chargeback" /\ t \in before.disputes /\ result' = "Ok")
                => /\ after.available = before.available
                   /\ after.held = before.held - a
                   /\ after.disputes = before.disputes \ {t}]_vars

\* A dispute of a deposit of a positive amount has just taken effect on a
\* frozen account (a dispute freezes nothing, so the account was frozen before).
C11_Witness ==
    /\ last.type = "dispute"
    /\ result = "Ok"
    /\ last.tx \in DOMAIN txn_history
    /\ txn_history[last.tx].kind = "Deposit"
    /\ txn_history[last.tx].amount > 0
    /\ LET o == txn_history[last.tx].client_id
       IN /\ accounts[o].frozen
          /\ last.tx \in accounts[o].disputes
          /\ accounts[o].held >= txn_history[last.tx].amount

\* A chargeback that takes effect on the account of client c in this step: it
\* returns no error and its id was in the dispute set of c, the owner.
ChargeBackTakesEffect(c) ==
    /\ Stepped
    /\ last'.type = "chargeback"
    /\ result' = "Ok"
    /\ last'.tx \in DOMAIN txn_history
    /\ txn_history[last'.tx].client_id = c
    /\ last'.tx \in AccountIn(accounts, c).disputes

\* C12: an account that is frozen stays frozen whatever record is processed,
\* an account becomes frozen only in a step in which a chargeback takes effect
\* on it, and every such step leaves it frozen (no account is frozen at the
\* start).
C12_FrozenMonotonic ==
    [][\A c \in ClientIds :
          LET before == AccountIn(accounts, c)
              after == AccountIn(accounts', c)
          IN /\ before.frozen => after.frozen
             /\ (~before.frozen /\ after.frozen) => ChargeBackTakesEffect(c)
             /\ ChargeBackTakesEffect(c) => after.frozen]_vars

\* At the end of the longest run an account is frozen although the record just
\* processed is no chargeback: the flag was set earlier and has been kept.
C12_Witness ==
    /\ nrecords = MaxRecords + 2
    /\ \E c \in DOMAIN accounts : accounts[c].frozen
    /\ last.type \in {"deposit", "withdrawal", "dispute", "resolve"}
    /\ result = "Ok"

\* The transaction from_record makes of a well-formed deposit or withdrawal
\* record.
TxnOf(record) ==
    [kind |-> IF record.type = "deposit" THEN "Deposit" ELSE "Withdraw",
     client_id |-> record.client, txn_id |-> record.tx, amount |-> record.amount[1]]

\* C13: a Deposit on an account that is not frozen whose amount would take
\* available beyond the maximum leaves the account as it was (that of a new
\* account when the record is the first to name the client), is recorded in
\* history, and returns no error, so that the loop goes on.
C13_DepositOverflowSuppressed ==
    [][(/\ Stepped
        /\ last'.type = "deposit"
        /\ last'.amount # None
        /\ ~AccountIn(accounts, last'.client).frozen
        /\ AccountIn(accounts, last'.client).available + last'.amount[1] > U128_MAX)
       => /\ last'.client \in DOMAIN accounts'
          /\ accounts'[last'.client] = AccountIn(accounts, last'.client)
          /\ last'.tx \in DOMAIN txn_history'
          /\ txn_history'[last'.tx] = TxnOf(last')
          /\ result' = "Ok"
          /\ pc' = "run"]_vars

\* A deposit has just been dropped for overflow: the account is not frozen and
\* its available, which a deposit never lowers, cannot take the amount.
C13_Witness ==
    /\ last.type = "deposit"
    /\ last.amount # None
    /\ result = "Ok"
    /\ pc = "run"
    /\ ~accounts[last.client].frozen
    /\ accounts[last.client].available + last.amount[1] > U128_MAX
    /\ txn_history[last.tx] = TxnOf(last)

\* C14 (as stated): an entry of the history is never removed and never
\* replaced by a different transaction.
C14_HistoryAppendOnly ==
    [][\A t \in DOMAIN txn_history :
          t \in DOMAIN txn_history' /\ txn_history'[t] = txn_history[t]]_vars

\* C15: a well-formed Deposit or Withdraw record is in history under its id
\* after it is processed, whatever became of its balance effect, and changes
\* no entry under another id; a dispute, resolve or chargeback record leaves
\* the history as it was.
C15_HistoryRecordsDepositsWithdrawals ==
    [][/\ (/\ Stepped
           /\ last'.type \in {"deposit", "withdrawal"}
           /\ last'.amount # None)
          => /\ DOMAIN txn_history' = DOMAIN txn_history \cup {last'.tx}
             /\ txn_history'[last'.tx] = TxnOf(last')
             /\ \A t \in DOMAIN txn_history \ {last'.tx} :
                   txn_history'[t] = txn_history[t]
       /\ (Stepped /\ last'.type \in DisputeFamily)
          => txn_history' = txn_history]_vars

\* A withdrawal that the account could not cover has just been processed: the
\* balance is as it was and the withdrawal is in history.
C15_Witness ==
    /\ last.type = "withdrawal"
    /\ last.amount # None
    /\ result = "Ok"
    /\ ~accounts[last.client].frozen
    /\ last.amount[1] > accounts[last.client].available
    /\ last.tx \in DOMAIN txn_history
    /\ txn_history[last.tx] = TxnOf(last)

\* C16 (as stated): the process exits with success exactly when the run
\* consumed the whole input without a fatal error; after an unreadable input,
\* a malformed record or an error of process_transaction it exits with a
\* non-zero status.
C16_ExitStatus ==
    exit_status # None => (exit_status[1] = 0 <=> pc = "complete")

\* The type tags Txn::from_record recognises.
RecognisedTypes == {"deposit", "withdrawal", "dispute", "resolve", "chargeback"}

\* C17: process_transaction on a record whose type tag is not one of the five
\* recognised tags, or on a deposit or withdrawal record with no amount,
\* returns an error and leaves the account map and the history map as they
\* were before the call.
C17_UnparsableRecordRejected ==
    [][(/\ Stepped
        /\ \/ last'.type \notin RecognisedTypes
           \/ last'.type \in {"deposit", "withdrawal"} /\ last'.amount = None)
       => /\ result' = "Err"
          /\ accounts' = accounts
          /\ txn_history' = txn_history]_vars

\* A deposit record with no amount was refused with an error while client 1
\* already had an account holding funds and a history entry.
C17_Witness ==
    /\ last.type = "deposit"
    /\ last.amount = None
    /\ result = "Err"
    /\ 1 \in DOMAIN accounts
    /\ accounts[1].available > 0
    /\ txn_history # EmptyMap

\* The number of decimal points in s.
RECURSIVE Points(_)
Points(s) ==
    IF s = <<>> THEN 0
    ELSE (IF Head(s) = "." THEN 1 ELSE 0) + Points(Tail(s))

\* C18 (as stated): amount parsing fails for every non-empty amount string
\* that contains more than one decimal point or any non-numeric character
\* anywhere in it, the fractional part after the fourth fractional digit
\* included.
C18_NonNumericRejected ==
    (/\ parse_result # NotParsed
     /\ amount_str # <<>>
     /\ \/ Points(amount_str) > 1
        \/ \E i \in 1..Len(amount_str) : amount_str[i] \notin Digits \cup {"."})
    => parse_result = ParseErr

\* s is a digits-only integer part, possibly empty, optionally followed by one
\* decimal point and a digits-only fractional part; the empty string apart.
DecimalString(s) ==
    /\ s # <<>>
    /\ Points(s) <= 1
    /\ \A i \in 1..Len(s) : s[i] \in Digits \cup {"."}

\* The characters of s before its point (all of s if it has none).
IntegerPart(s) == split(s)[1]

\* The characters of s after its point (none if it has no point).
FractionPart(s) == IF Points(s) = 0 THEN <<>> ELSE SubSeq(s, Len(IntegerPart(s)) + 2, Len(s))

\* The value of the digit string str, counted up to limit and no further.
RECURSIVE ValueUpTo(_, _)
ValueUpTo(str, limit) ==
    IF str = <<>> THEN 0
    ELSE LET front == ValueUpTo(SubSeq(str, 1, Len(str) - 1), limit)
         IN IF front >= limit THEN limit
            ELSE front * 10 + DigitValue(str[Len(str)])

\* The first four digits of the fractional part F, right-padded with zeros to
\* four digits, as a number.
FourDigits(F) == ValueUpTo(SubSeq(F \o <<"0", "0", "0", "0">>, 1, 4), 10000)

\* I x 10000 plus the four-digit fraction exceeds ParseU128Max.
PastU128Max(s) ==
    LET I == ValueUpTo(IntegerPart(s), ParseU128Max + 1)
    IN \/ I > ParseU128Max \div 10000
       \/ I * 10000 + FourDigits(FractionPart(s)) > ParseU128Max

\* I x 10000 plus the four-digit fraction, for a string not PastU128Max.
ExpectedAmount(s) ==
    ValueUpTo(IntegerPart(s), ParseU128Max + 1) * 10000 + FourDigits(FractionPart(s))

\* C19 (as stated): for every amount string made of a digits-only integer
\* part I, possibly empty, optionally followed by one point and a digits-only
\* fractional part F, parsing yields I x 10000 plus the first four digits of F
\* right-padded with zeros; the empty string yields no amount.
C19_ParsedValue ==
    parse_result # NotParsed =>
        /\ amount_str = <<>> => parse_result = ParseOk(None)
        /\ DecimalString(amount_str) =>
               /\ parse_result.state = "ok"
               /\ parse_result.value # None
               /\ ~PastU128Max(amount_str) =>
                      parse_result.value = Some(ExpectedAmount(amount_str))

\* C19 (amended): the same, provided the value fits u128; a decimal string
\* whose value is past u128::MAX fails to parse.
C19_ParsedValueWithinRange ==
    parse_result # NotParsed =>
        /\ amount_str = <<>> => parse_result = ParseOk(None)
        /\ DecimalString(amount_str) =>
               IF PastU128Max(amount_str)
               THEN parse_result = ParseErr
               ELSE parse_result = ParseOk(Some(ExpectedAmount(amount_str)))

\* A fraction of five digits was parsed: the fifth digit was dropped, not
\* rounded up.
C19_Witness ==
    /\ amount_str = <<".", "0", "0", "0", "5", "5">>
    /\ parse_result = ParseOk(Some(5))

\* The sum of the amounts of the history entries whose ids are in ids.
RECURSIVE DisputedAmount(_)
DisputedAmount(ids) ==
    IF ids = {} THEN 0
    ELSE LET t == CHOOSE x \in ids : TRUE
         IN amount_of(txn_history[t]) + DisputedAmount(ids \ {t})

\* C20 (as stated): with no two deposit or withdrawal records sharing a
\* transaction id, in every reachable state each account's held equals the sum
\* of the amounts of the deposits whose ids are in that account's dispute set.
C20_HeldIsDisputedSum ==
    \A c \in DOMAIN accounts :
        accounts[c].held = DisputedAmount(accounts[c].disputes)

\* C21 (as stated): a Deposit whose balance effect was dropped (the account
\* was frozen, or available would have overflowed) never moves funds later: a
\* subsequent Dispute referencing its id leaves every account's available and
\* held unchanged and adds no dispute-set entry.
C21_DroppedDepositNotDisputable ==
    [][(Stepped /\ last'.type = "dispute" /\ last'.tx \in dropped)
       => \A c \in DOMAIN accounts' :
              /\ accounts'[c].available = AccountIn(accounts, c).available
              /\ accounts'[c].held = AccountIn(accounts, c).held
              /\ accounts'[c].disputes = AccountIn(accounts, c).disputes]_vars

\* C22 (as stated): whenever process_transaction returns an error, the ledger
\* is unchanged by that call: every account's available, held, dispute set
\* and frozen flag, and the history map, are as they were before the call.
C22_ErrorLeavesLedgerUnchanged ==
    [][(Stepped /\ result' = "Err")
       => /\ txn_history' = txn_history
          /\ \A c \in DOMAIN accounts' :
                 accounts'[c] = AccountIn(accounts, c)]_vars

\* C23: the account map holds exactly the client ids named by the Deposit and
\* Withdraw transactions processed so far, rejected ones included. Step by
\* step from the empty map of Init: such a transaction adds its client's
\* account if it is missing, created with available = 0, held = 0, an empty
\* dispute set and frozen = false before the operation is applied, and removes
\* none; any other record leaves the set of accounts as it was.
C23_AccountsOfDepositsAndWithdrawals ==
    [][Stepped =>
          IF last'.type \in {"deposit", "withdrawal"} /\ last'.amount # None
          THEN /\ DOMAIN accounts' = DOMAIN accounts \cup {last'.client}
               /\ last'.client \notin DOMAIN accounts =>
                      accounts'[last'.client] =
                          [available |-> IF last'.type = "deposit"
                                         THEN last'.amount[1] ELSE 0,
                           held |-> 0, disputes |-> {}, frozen |-> FALSE]
          ELSE DOMAIN accounts' = DOMAIN accounts]_vars

\* A dispute record naming client 2, who has no account, took effect on the
\* deposit of client 1, and client 1's account is still the only one.
C23_Witness ==
    /\ last.type = "dispute"
    /\ last.client = 2
    /\ DOMAIN accounts = {1}
    /\ accounts[1].held > 0
    /\ last.tx \in accounts[1].disputes

====
